---- MODULE Spec2Model ----
(***************************************************************************)
(* caf::async::publishing_queue<T> and caf::detail::publishing_queue_backend*)
(* (libcaf_core/caf/async/publishing_queue.hpp).                           *)
(*                                                                         *)
(* Producer threads call publishing_queue::try_push / push, which run the  *)
(* queue operation under queue::mtx and afterwards, outside the lock, call *)
(* notify_event().  One cooperative worker runs the backend's hooks        *)
(* (on_event, on_close, on_abort, on_request); the hooks reach the shared  *)
(* queue only through pull() and done(), each under queue::mtx.            *)
(*                                                                         *)
(* flow::buffered_observable_impl (try_push, shutdown, abort, on_request,  *)
(* done, append_to_buf) and async::notifiable are not part of the file;    *)
(* they are modelled from the specification's description of the reactive  *)
(* base and of the notification bridge.                                    *)
(***************************************************************************)
EXTENDS Integers, Sequences, FiniteSets, TLC

\* ---------------------------------------------------------------- bounds
NProducers == 2   \* producer threads sharing one publishing_queue
MaxCap == 2       \* capacities tried: 1..MaxCap
MaxDemand == 1    \* outstanding downstream demand

\* ------------------------------------------------------------- constants
NoOwner == 0      \* queue::mtx unlocked

Producers == 1 .. NProducers
WorkerThread == NProducers + 1
Reasons == {"err_a", "err_b"}

VARIABLES
  capacity,   \* queue::capacity
  buf,        \* queue::buf
  mtx,        \* owner of queue::mtx, or NoOwner
  pc,         \* pc[p]: where producer p stands in its call
  op,         \* op[p]: "try_push", "push" or "none"
  added,      \* added[p]: the queue operation appended p's value
  first,      \* first[p]: do_notify, the queue operation's became-first flag
  wpc,        \* where the worker stands in the running hook
  hook,       \* what the running hook does: "close" (try_push, then
              \*   shutdown), "pull" (try_push only) or "none"
  wn,         \* argument n of the pull in progress
  demand,     \* base: outstanding downstream demand
  staging,    \* base: outgoing staging buffer
  st,         \* base: "active", "closing", "completed", "aborted"
  outcome,    \* what the downstream observers were told at termination
  ev,         \* bridge: a notify_event() signal waits for the worker
  pending,    \* history: values appended and not yet emitted downstream,
              \*   in the order their appends took effect
  owed,       \* history: queue operations that returned do_notify = true
              \*   minus notify_event() calls made
  caught,     \* history: producers that were waiting in push when on_close
              \*   or on_abort ran and whose push has not appended since
  atClose     \* history: how many of the items that were in buf when
              \*   on_close first ran have not been emitted yet

prodVars == <<pc, op, added, first>>
workVars == <<wpc, hook, wn>>
baseVars == <<demand, staging, st, outcome>>
histVars == <<pending, owed, caught, atClose>>
vars == <<capacity, buf, mtx, prodVars, workVars, baseVars, ev, histVars>>

Min(a, b) == IF a < b THEN a ELSE b

\* The value of the next item appended.  The queue is a template over T and
\* never looks at a value, so an item is represented by a mark that differs
\* from the mark of the item appended just before it: neighbours in arrival
\* order can be told apart.
NextValue(h) == IF h = <<>> THEN 0 ELSE 1 - h[Len(h)]

\* s without its first k elements
Drop(s, k) == SubSeq(s, k + 1, Len(s))

\* ----------------------------------------------------------------- queue

\* queue::try_push / queue::push, line 37 / 52: `buf.empty()`
IsEmpty(b) == Len(b) = 0

\* The room test dropped: there is always room
HasRoomAlways(b, c) == TRUE

\* The room test off by one: `buf.size() <= capacity`
HasRoomOffByOne(b, c) == Len(b) <= c

\* queue::try_push / queue::push, line 40 / 55: `buf.size() < capacity`
HasRoom(b, c) == Len(b) < c

\* The value inserted at the front instead of the back
EmplaceFront(b, v) == <<v>> \o b

\* `buf.emplace_back(value)`
EmplaceBack(b, v) == Append(b, v)

\* pull taking everything there is, whatever n
TakeAll(n, b) == Len(b)

\* pull taking one item more than asked for, if there is one
TakeOneMore(n, b) == Min(n + 1, Len(b))

\* pull, line 147: `m = std::min(n, src_buf.size())`
TakeCount(n, b) == Min(n, Len(b))

\* pull, line 148: the range [begin, begin + m) handed to append_to_buf
Front(b, m) == SubSeq(b, 1, m)

\* The erase forgotten: the items handed on stay in the queue
EraseNothing(b, m) == b

\* pull, line 149: `src_buf.erase(begin, begin + m)`
EraseFront(b, m) == SubSeq(b, m + 1, Len(b))

\* pull without the cv.notify_all()
NotifiesNever(m) == FALSE

\* pull, lines 147/150: cv.notify_all() runs only inside `if (m > 0)`
NotifiesWaiters(m) == m > 0

\* make_publishing_queue(ctx, c), lines 172-183, and queue::queue, lines
\* 30-32: the queue stores c as its capacity and starts empty, the backend
\* and the worker start idle
Constructed(c) ==
  /\ capacity = c
  /\ buf = <<>>
  /\ mtx = NoOwner
  /\ pc = [p \in Producers |-> "idle"]
  /\ op = [p \in Producers |-> "none"]
  /\ added = [p \in Producers |-> FALSE]
  /\ first = [p \in Producers |-> FALSE]
  /\ wpc = "idle"
  /\ hook = "none"
  /\ wn = 0
  /\ demand = 0
  /\ staging = <<>>
  /\ st = "active"
  /\ outcome = "none"
  /\ ev = FALSE
  /\ pending = <<>>
  /\ owed = 0
  /\ caught = {}
  /\ atClose = 0

\* A pipeline made by a caller that keeps to the contract: capacity >= 1
Init == \E c \in 1 .. MaxCap : Constructed(c)

\* A pipeline made with any capacity argument, 0 included: neither
\* make_publishing_queue nor the constructor looks at the value
UncheckedInit == \E c \in 0 .. MaxCap : Constructed(c)

\* ------------------------------------------------------- producer threads

\* p is inside cv.wait(guard), line 59: waiting for a notify_all, or awake
\* and waiting to get the lock back
InWait(p) == pc[p] \in {"wait", "woken", "spurious"}

\* queue::try_push accepting the value when the buffer is full
TryPushAlwaysAccepts(b, c) ==
  IF IsEmpty(b) THEN <<TRUE, TRUE>> ELSE <<TRUE, FALSE>>

\* queue::try_push, lines 37-45: the pair it returns
TryPushResult(b, c) ==
  IF IsEmpty(b) THEN <<TRUE, TRUE>>
  ELSE IF HasRoom(b, c) THEN <<TRUE, FALSE>>
  ELSE <<FALSE, FALSE>>

\* The loop of queue::push without its wait: the value is appended
\* whether or not there is room
PushIgnoresCapacity(b, c) ==
  IF IsEmpty(b) THEN <<TRUE, TRUE>> ELSE <<TRUE, FALSE>>

\* queue::push returning true for every append
PushAlwaysFirst(b, c) ==
  IF IsEmpty(b) \/ HasRoom(b, c) THEN <<TRUE, TRUE>> ELSE <<FALSE, FALSE>>

\* queue::push, lines 52-59, one turn of the loop: <<appended, returned
\* value>>; <<FALSE, FALSE>> stands for reaching cv.wait(guard)
PushResult(b, c) ==
  IF IsEmpty(b) THEN <<TRUE, TRUE>>
  ELSE IF HasRoom(b, c) THEN <<TRUE, FALSE>>
  ELSE <<FALSE, FALSE>>

\* notifiable::notify_event(): a signal for the worker is pending; signals
\* sent before the worker handles one collapse into one on_event
notify_event(e) == TRUE

\* Entering a call: the handle forwards to the queue operation, which
\* starts by taking the lock (lines 74 and 36, 83 and 50).
EnterCall(p, o) ==
  /\ pc[p] = "idle"
  /\ mtx = NoOwner
  /\ mtx' = p
  /\ pc' = [pc EXCEPT ![p] = "crit"]
  /\ op' = [op EXCEPT ![p] = o]
  /\ UNCHANGED <<capacity, buf, added, first, workVars, baseVars,
                 ev, histVars>>

try_push_call(p) == EnterCall(p, "try_push")

push_call(p) == EnterCall(p, "push")

\* queue::try_push, lines 37-46, under the lock; returning releases it
queue_try_push(p) ==
  /\ pc[p] = "crit" /\ op[p] = "try_push" /\ mtx = p
  /\ LET r == TryPushResult(buf, capacity) IN
       /\ buf' = IF r[1] THEN EmplaceBack(buf, NextValue(pending)) ELSE buf
       /\ added' = [added EXCEPT ![p] = r[1]]
       /\ first' = [first EXCEPT ![p] = r[2]]
       /\ pending' = IF r[1] THEN Append(pending, NextValue(pending))
                     ELSE pending
       /\ owed' = IF r[2] THEN owed + 1 ELSE owed
  /\ mtx' = NoOwner
  /\ pc' = [pc EXCEPT ![p] = "ret"]
  /\ UNCHANGED <<capacity, op, workVars, baseVars, ev, caught, atClose>>

\* A wait that keeps the lock while it waits
WaitKeepsLock(p) == p

\* cv.wait(guard), line 59: the owner of the lock while p waits; the wait
\* unlocks guard
WaitReleasesLock(p) == NoOwner

\* queue::push, lines 51-60, one turn of the loop under the lock: append
\* and return (releasing the lock), or cv.wait, which releases the lock
queue_push(p) ==
  /\ pc[p] = "crit" /\ op[p] = "push" /\ mtx = p
  /\ LET r == PushResult(buf, capacity) IN
       /\ buf' = IF r[1] THEN EmplaceBack(buf, NextValue(pending)) ELSE buf
       /\ added' = [added EXCEPT ![p] = r[1]]
       /\ first' = [first EXCEPT ![p] = r[2]]
       /\ pending' = IF r[1] THEN Append(pending, NextValue(pending))
                     ELSE pending
       /\ owed' = IF r[2] THEN owed + 1 ELSE owed
       /\ pc' = [pc EXCEPT ![p] = IF r[1] THEN "ret" ELSE "wait"]
       /\ mtx' = IF r[1] THEN NoOwner ELSE WaitReleasesLock(p)
       /\ caught' = IF r[1] THEN caught \ {p} ELSE caught
  /\ UNCHANGED <<capacity, op, workVars, baseVars, ev, atClose>>

\* cv.wait returns without a notify_all (the standard allows it); the
\* thread now needs the lock again
spurious_wakeup(p) ==
  /\ pc[p] = "wait"
  /\ pc' = [pc EXCEPT ![p] = "spurious"]
  /\ UNCHANGED <<capacity, buf, mtx, op, added, first, workVars,
                 baseVars, ev, histVars>>

\* cv.wait re-acquires the lock before it returns, line 59
cv_wait_return(p) ==
  /\ pc[p] \in {"woken", "spurious"}
  /\ mtx = NoOwner
  /\ mtx' = p
  /\ pc' = [pc EXCEPT ![p] = "crit"]
  /\ UNCHANGED <<capacity, buf, op, added, first, workVars,
                 baseVars, ev, histVars>>

\* The handle never notifying
DoNotifyNever(a, f) == FALSE

\* The handle notifying for every accepted value: `if (added)`
DoNotifyIfAdded(a, f) == a

\* publishing_queue::try_push / push, lines 75 and 84: `if (do_notify)`
DoNotify(a, f) == f

\* The handle after the queue operation returned: notify_event() if
\* do_notify, then return to the caller (lines 75-77, 84-85).
LeaveCall(p) ==
  /\ pc[p] = "ret"
  /\ IF DoNotify(added[p], first[p])
       THEN ev' = notify_event(ev) /\ owed' = owed - 1
       ELSE ev' = ev /\ owed' = owed
  /\ pc' = [pc EXCEPT ![p] = "idle"]
  /\ op' = [op EXCEPT ![p] = "none"]
  /\ added' = [added EXCEPT ![p] = FALSE]
  /\ first' = [first EXCEPT ![p] = FALSE]
  /\ UNCHANGED <<capacity, buf, mtx, workVars, baseVars, pending, caught,
                 atClose>>

try_push_return(p) == op[p] = "try_push" /\ LeaveCall(p)

push_return(p) == op[p] = "push" /\ LeaveCall(p)

\* ----------------------------------------------------- the reactive base

\* A base that stops only when aborted and keeps running its hooks after
\* it has completed
TerminalOnlyAborted(s) == s = "aborted"

\* The base has told its observers that the stream ended, normally or
\* with an error; its hooks do nothing from then on
Terminal(s) == s \in {"completed", "aborted"}

\* super::done(): the base has been shut down and has nothing staged
BaseDone(s, sb) == s \in {"closing", "completed"} /\ sb = <<>>

\* The demand the base asks pull() to cover: what downstream has requested
\* beyond what is staged already
Available(d, sb) == IF d > Len(sb) THEN d - Len(sb) ELSE 0

\* super::try_push(), its start: nothing once terminal, pull(n) when there
\* is demand to cover (n > 0), else straight to emitting
StartTryPush(h, d) ==
  IF Terminal(st)
    THEN /\ wpc' = "idle" /\ hook' = "none" /\ wn' = 0
    ELSE /\ hook' = (IF h = "close" THEN "close" ELSE "pull")
         /\ wn' = Available(d, staging)
         /\ wpc' = IF Available(d, staging) > 0 THEN "pull_lock" ELSE "emit"

\* ---------------------------------------------------- the worker's hooks

\* on_event, lines 116-118: the worker takes the pending signal and runs
\* this->try_push()
on_event ==
  /\ wpc = "idle"
  /\ ev
  /\ ev' = FALSE
  /\ StartTryPush("event", demand)
  /\ UNCHANGED <<capacity, buf, mtx, prodVars, baseVars, histVars>>

\* on_close, lines 120-123: this->try_push(), then this->shutdown()
on_close ==
  /\ wpc = "idle"
  /\ StartTryPush("close", demand)
  /\ atClose' = IF st = "active" THEN Len(buf) ELSE atClose
  /\ caught' = IF st = "active"
                THEN caught \cup {p \in Producers : InWait(p)}
                ELSE caught
  /\ UNCHANGED <<capacity, buf, mtx, prodVars, baseVars, ev, pending, owed>>

\* on_request, lines 129-131: super::on_request(sink, n) adds n to the
\* outstanding demand and runs try_push()
on_request(n) ==
  /\ wpc = "idle"
  /\ demand + n <= MaxDemand
  /\ demand' = IF Terminal(st) THEN demand ELSE demand + n
  /\ StartTryPush("request", demand + n)
  /\ UNCHANGED <<capacity, buf, mtx, prodVars, staging, st, outcome, ev,
                 histVars>>

\* The reason dropped on the way: the observers see a plain completion
AbortAsCompletion(r) == "complete"

\* on_abort, line 126: the reason handed to this->abort(reason) is what
\* the observers' on_error receives
AbortOutcome(r) == r

\* on_abort, lines 125-127: this->abort(reason); the base fails its
\* observers with the reason and drops what is staged
on_abort(r) ==
  /\ wpc = "idle"
  /\ IF Terminal(st)
       THEN UNCHANGED <<st, outcome, staging, caught>>
       ELSE /\ st' = "aborted"
            /\ outcome' = AbortOutcome(r)
            /\ staging' = <<>>
            /\ caught' = caught \cup {p \in Producers : InWait(p)}
  /\ UNCHANGED <<capacity, buf, mtx, prodVars, workVars, demand, ev,
                 pending, owed, atClose>>

\* pull, line 145: `std::unique_lock guard{queue_->mtx}`
pull_lock ==
  /\ wpc = "pull_lock"
  /\ mtx = NoOwner
  /\ mtx' = WorkerThread
  /\ wpc' = "pull_crit"
  /\ UNCHANGED <<capacity, buf, prodVars, hook, wn, baseVars, ev, histVars>>

\* pull, lines 146-152, under the lock
pull ==
  /\ wpc = "pull_crit" /\ mtx = WorkerThread
  /\ LET m == TakeCount(wn, buf) IN
       /\ staging' = staging \o Front(buf, m)
       /\ buf' = EraseFront(buf, m)
       /\ pc' = [p \in Producers |->
                   IF NotifiesWaiters(m) /\ pc[p] = "wait" THEN "woken"
                   ELSE pc[p]]
  /\ mtx' = NoOwner
  /\ wpc' = "emit"
  /\ UNCHANGED <<capacity, op, added, first, hook, wn, demand, st,
                 outcome, ev, histVars>>

\* The rest of try_push(): hand staged items to the observers, as far as
\* demand goes.  on_close then calls shutdown() (line 122).  A base that has
\* been shut down asks done() whether to complete.
emit ==
  /\ wpc = "emit"
  /\ LET k == Min(demand, Len(staging))
         s1 == IF hook = "close" /\ st = "active" THEN "closing" ELSE st
     IN
       /\ staging' = Drop(staging, k)
       /\ pending' = Drop(pending, k)
       /\ atClose' = IF atClose > k THEN atClose - k ELSE 0
       /\ demand' = demand - k
       /\ st' = s1
       /\ IF BaseDone(s1, staging')
            THEN wpc' = "done_lock" /\ hook' = hook
            ELSE wpc' = "idle" /\ hook' = "none"
  /\ wn' = 0
  /\ UNCHANGED <<capacity, buf, mtx, prodVars, outcome, ev, owed, caught>>

\* done, line 135: super::done() held, take the lock
done_lock ==
  /\ wpc = "done_lock"
  /\ mtx = NoOwner
  /\ mtx' = WorkerThread
  /\ wpc' = "done_crit"
  /\ UNCHANGED <<capacity, buf, prodVars, hook, wn, baseVars, ev, histVars>>

\* done() trusting the base alone, without a look at the queue
DoneIgnoresQueue(b) == TRUE

\* done() with the test of the queue inverted
QueueNotDrained(b) == ~IsEmpty(b)

\* done, line 136: `return queue_->buf.empty()`
QueueDrained(b) == IsEmpty(b)

\* done, lines 135-136, under the lock; returning releases it
done ==
  /\ wpc = "done_crit" /\ mtx = WorkerThread
  /\ mtx' = NoOwner
  /\ IF QueueDrained(buf)
       THEN wpc' = "complete" /\ hook' = hook
       ELSE wpc' = "idle" /\ hook' = "none"
  /\ UNCHANGED <<capacity, buf, prodVars, wn, baseVars, ev, histVars>>

\* done() returned true: the base completes its observers
complete ==
  /\ wpc = "complete"
  /\ st' = "completed"
  /\ outcome' = "complete"
  /\ wpc' = "idle"
  /\ hook' = "none"
  /\ UNCHANGED <<capacity, buf, mtx, prodVars, wn, demand, staging, ev,
                 histVars>>

\* -------------------------------------------------------- specifications

ProducerStep(p) ==
  \/ try_push_call(p)
  \/ push_call(p)
  \/ queue_try_push(p)
  \/ queue_push(p)
  \/ spurious_wakeup(p)
  \/ cv_wait_return(p)
  \/ try_push_return(p)
  \/ push_return(p)

WorkerStep ==
  \/ on_event
  \/ on_close
  \/ \E n \in 1 .. MaxDemand : on_request(n)
  \/ \E r \in Reasons : on_abort(r)
  \/ pull_lock
  \/ pull
  \/ emit
  \/ done_lock
  \/ done
  \/ complete

Next == (\E p \in Producers : ProducerStep(p)) \/ WorkerStep

Spec == Init /\ [][Next]_vars

\* What the scheduling of the threads provides: a thread that holds the
\* lock finishes its critical section, a thread that needs the lock gets
\* it eventually, a call that has its result returns, and the worker
\* handles a pending signal and runs the hook it started to its end.
\* Calls, downstream requests, close, abort and spurious wake-ups are up to
\* the environment and need not happen.
Fairness ==
  /\ \A p \in Producers :
       /\ WF_vars(queue_try_push(p))
       /\ WF_vars(queue_push(p))
       /\ WF_vars(LeaveCall(p))
       /\ SF_vars(cv_wait_return(p))
  /\ SF_vars(on_event)
  /\ SF_vars(pull_lock)
  /\ WF_vars(pull)
  /\ WF_vars(emit)
  /\ SF_vars(done_lock)
  /\ WF_vars(done)
  /\ WF_vars(complete)

LiveSpec == Spec /\ Fairness

UncheckedSpec == UncheckedInit /\ [][Next]_vars

\* ----------------------------------------------------------------- claims

Count(s, v) == Cardinality({i \in 1 .. Len(s) : s[i] = v})

\* Producers whose queue operation reported became_first and whose
\* notify_event() is still to come
Unnotified == {p \in Producers : pc[p] = "ret" /\ first[p]}

\* C1: for every capacity >= 1 and every interleaving of push, try_push and
\* pull, the shared buffer holds between 0 and capacity items in every
\* reachable state.
C1_LengthWithinCapacity ==
  /\ capacity >= 1
  /\ Len(buf) >= 0
  /\ Len(buf) <= capacity

\* C1 witness: the buffer is full, a push is waiting for room and a try_push
\* has just been rejected.
C1_Witness ==
  /\ Len(buf) = capacity
  /\ \E p \in Producers : pc[p] = "wait"
  /\ \E q \in Producers : pc[q] = "ret" /\ op[q] = "try_push" /\ ~added[q]

\* C2: no item is lost or duplicated: at every instant the items accepted
\* and not yet emitted downstream are, as a multiset, the items in the
\* staging buffer plus the items in the shared buffer (so once both are
\* empty everything accepted has been delivered).
C2_NoLossNoDuplication ==
  /\ \A v \in {0, 1} :
       Count(pending, v) = Count(staging, v) + Count(buf, v)
  /\ \A i \in 1 .. Len(pending) : pending[i] \in {0, 1}

\* C2 witness: an item has been moved to the staging buffer while another
\* accepted item is still in the shared buffer.
C2_Witness ==
  /\ Len(staging) >= 1
  /\ Len(buf) >= 1
  /\ \E p \in Producers : pc[p] = "ret" /\ added[p]

\* C3: items reach the staging buffer in the order their appends took
\* effect: the accepted, not yet emitted items in arrival order are the
\* staging buffer followed by the shared buffer.
C3_ArrivalOrder == pending = staging \o buf

\* C3 witness: two items with different marks are in flight, the older one
\* pulled into the staging buffer and the newer one still queued.
C3_Witness ==
  /\ Len(staging) = 1
  /\ Len(buf) >= 1
  /\ staging[1] # buf[1]

\* C4 as stated: each became_first result is answered by exactly one
\* notify_event(), a push that found the buffer non-empty triggers none,
\* and the notification is sent before the next push that finds the buffer
\* empty, i.e. never are two became_first results unnotified at once.
C4_NotifyBeforeNextFirst ==
  /\ owed = Cardinality(Unnotified)
  /\ Cardinality(Unnotified) <= 1

\* C4 amended: each became_first result is answered by exactly one
\* notify_event(), sent by the same call before it returns, and a push that
\* found the buffer non-empty triggers none.
C4_OneNotifyPerFirst == owed = Cardinality(Unnotified)

\* C4 witness: a producer is about to send the notification of its
\* became_first result while another producer returns without one.
C4_Witness ==
  \E p, q \in Producers :
    /\ pc[p] = "ret" /\ first[p]
    /\ pc[q] = "ret" /\ added[q] /\ ~first[q]


\* A step that takes at least one item out of the shared buffer (only pull
\* does, line 149)
Removes == Len(buf') < Len(buf)

\* The shared buffer holds an item that the downstream demand asks for
HeadWaits == buf # <<>> /\ demand > Len(staging)

\* A pull has moved items to the staging buffer and the hook that ran it
\* has not emitted them yet. The staging buffer is empty at any other time,
\* since a pull never takes more than the demand asks for.
Pulled == staging # <<>>

\* C5 as stated: under fair scheduling, whenever the shared buffer holds an
\* item and demand is outstanding, a pull eventually moves items out of the
\* shared buffer, unless the adapter has been aborted.
C5_PulledUnlessAborted == HeadWaits ~> (Pulled \/ st = "aborted")

\* C5 amended: under fair scheduling, whenever the shared buffer holds an
\* item and demand is outstanding, a pull eventually moves items out of the
\* shared buffer, unless the adapter is aborted or completes; this holds
\* whether or not the append that put the item there sent a notification.
C5_PulledUnlessTerminated == HeadWaits ~> (Pulled \/ Terminal(st))

\* C5 witness: a push has appended to a non-empty buffer, so it will send no
\* notification, while demand is outstanding and the adapter is active.
C5_Witness ==
  /\ st = "active"
  /\ HeadWaits
  /\ \E p \in Producers : pc[p] = "ret" /\ added[p] /\ ~first[p]

\* C6: a push that finds the buffer full neither appends nor returns; it
\* waits, and a waiting push can only leave through a new test of the
\* buffer under the lock.  Nothing is appended while len(items) = capacity,
\* items are removed only by pull, and a waiting producer is woken (by
\* notify_all) only in a step of pull that removed at least one item; as
\* long as a producer is still waiting the buffer is full.
C6_StepFullPushWaits ==
  /\ \A p \in Producers :
       /\ (pc[p] = "crit" /\ op[p] = "push" /\ Len(buf) = capacity)
            => (pc'[p] \in {"crit", "wait"} /\ buf' = buf)
       /\ InWait(p) => (InWait(p)' \/ pc'[p] = "crit")
       /\ (InWait(p) /\ pc'[p] = "crit") => buf' = buf
       /\ (pc[p] = "wait" /\ pc'[p] = "woken")
            => (wpc = "pull_crit" /\ Len(buf') < Len(buf))
  /\ Len(buf') > Len(buf) => Len(buf) < capacity
  /\ Len(buf') < Len(buf) => (wpc = "pull_crit" /\ wpc' = "emit")

C6_FullPushWaitsForPull ==
  /\ [][C6_StepFullPushWaits]_vars
  /\ [](\A p \in Producers : pc[p] = "wait" => Len(buf) = capacity)

\* C6 witness: a push that found the buffer full has been woken by a pull
\* that removed an item, and there is room for its value now.
C6_Witness ==
  \E p \in Producers :
    /\ pc[p] = "woken" /\ op[p] = "push"
    /\ Len(buf) < capacity
    /\ wpc = "emit" /\ Len(staging) >= 1

\* C7 as stated: if pulls keep removing items, every push that waits on a
\* full buffer returns, however many producers are pushing.
C7_BlockedPushReturns ==
  \A p \in Producers :
    []<><<Removes>>_vars => (pc[p] = "wait" ~> pc[p] = "ret")

\* A pull that removes an item wakes every push that waits
C7_StepPullWakes ==
  \A p \in Producers : (Removes /\ pc[p] = "wait") => pc'[p] = "woken"

\* C7 amended: every pull that removes an item wakes every waiting push; a
\* woken push returns unless the buffer is full again when it re-tests it,
\* and it always returns when no other producer is pushing, as in the
\* scenario with capacity 1 and a single producer.
C7_WokenPushReturnsUnlessRefilled ==
  /\ [][C7_StepPullWakes]_vars
  /\ \A p \in Producers :
       pc[p] = "woken" ~> (pc[p] = "ret" \/ Len(buf) = capacity)
  /\ \A p \in Producers :
       [](\A q \in Producers \ {p} : pc[q] = "idle")
         => (pc[p] = "woken" ~> pc[p] = "ret")

\* C7 witness: capacity is 1, a single producer is pushing, and its second
\* push has been woken by the pull that took the first item.
C7_Witness ==
  \E p \in Producers :
    /\ capacity = 1
    /\ pc[p] = "woken"
    /\ buf = <<>>
    /\ \A q \in Producers \ {p} : pc[q] = "idle"

\* C8: a push that was waiting on a full buffer when on_close or on_abort
\* was processed eventually appends its value and returns.
C8_CaughtPushReturns ==
  \A p \in Producers : (p \in caught) ~> (p \notin caught)

\* The step in which the observers receive the normal completion
Completes == st # "completed" /\ st' = "completed"

\* C9 as stated: normal completion is emitted only in a state where the
\* shared buffer is empty, after every item that was in the buffer when
\* on_close ran has been delivered; on_close makes one pull attempt and then
\* requests shutdown, which waits until done() is true.
C9_CompletesOnEmptyBuffer ==
  /\ [][Completes => buf = <<>>]_vars
  /\ [](st = "completed" => atClose = 0 /\ outcome = "complete")
  /\ [](wpc = "complete" => st = "closing" /\ staging = <<>>)

\* C9 amended: normal completion is emitted only after a done() call that
\* ran after on_close's shutdown request and found, under the lock, the
\* shared buffer empty with nothing staged; every item that was in the
\* buffer when on_close ran has been delivered by then.  on_close makes one
\* pull attempt and then requests shutdown (active -> closing), and the
\* adapter stays closing while done() is false.  An item appended after
\* that done() call can be in the buffer when the completion is emitted.
C9_StepGracefulClose ==
  /\ Completes => (wpc = "complete" /\ atClose = 0)
  /\ (wpc # "complete" /\ wpc' = "complete")
       => /\ wpc = "done_crit" /\ mtx = WorkerThread
          /\ buf = <<>> /\ staging = <<>> /\ st = "closing"
  /\ (st = "active" /\ st' # "active")
       => \/ st' = "aborted"
          \/ st' = "closing" /\ hook = "close" /\ wpc = "emit"
  /\ (st = "closing" /\ wpc = "done_crit" /\ buf # <<>>)
       => (st' = "closing" /\ wpc' # "complete")

C9_CompletesAfterDrain ==
  /\ [][C9_StepGracefulClose]_vars
  /\ [](st = "completed" => atClose = 0 /\ outcome = "complete")
  /\ [](wpc = "complete" => st = "closing" /\ staging = <<>>)

\* C9 witness: on_close ran while items were in the buffer and there was no
\* demand for them: the shutdown is deferred, the items are still there.
C9_Witness ==
  /\ st = "closing" /\ wpc = "idle"
  /\ atClose > 0 /\ Len(buf) >= atClose

\* C10: on_abort(reason) on an adapter that has not terminated makes it
\* aborted with the observers told that reason; from then on nothing is
\* removed from the shared buffer, nothing is staged or emitted, and the
\* outcome stays that failure: it never turns into a normal completion.
C10_StepAbort ==
  /\ \A r \in Reasons :
       (on_abort(r) /\ ~Terminal(st))
         => (st' = "aborted" /\ outcome' = r /\ buf' = buf)
  /\ st = "aborted"
       => /\ st' = "aborted" /\ outcome' = outcome
          /\ Len(buf') >= Len(buf)
          /\ SubSeq(buf', 1, Len(buf)) = buf
          /\ SubSeq(pending', 1, Len(pending)) = pending
          /\ staging' = <<>>
          /\ wpc' = "idle"

C10_AbortDiscards ==
  /\ [][C10_StepAbort]_vars
  /\ [](st = "aborted" => outcome \in Reasons /\ wpc = "idle")

\* C10 witness: the adapter was aborted with demand outstanding and a full
\* buffer; a notification has been handled since and the items are still
\* there.
C10_Witness ==
  /\ st = "aborted" /\ outcome = "err_b"
  /\ demand > 0
  /\ Len(buf) = capacity
  /\ ~ev
  /\ \E p \in Producers : pc[p] = "wait"

\* C11: done() returns true exactly when the base considers itself done
\* and the shared buffer is empty at the instant done() reads it under the
\* lock: it is false whenever the buffer is non-empty, it is not asked for
\* the buffer unless the base is done, and it is true only after on_close.
C11_StepDone ==
  /\ (wpc = "emit" /\ wpc' # "emit") =>
       ((wpc' = "done_lock") <=> BaseDone(st', staging'))
  /\ (wpc = "done_crit" /\ wpc' # "done_crit") =>
       /\ BaseDone(st, staging)
       /\ (wpc' = "complete") <=> (buf = <<>>)
       /\ (wpc' = "idle") <=> (buf # <<>>)

C11_DoneIffBaseDoneAndEmpty ==
  /\ [][C11_StepDone]_vars
  /\ [](wpc \in {"done_lock", "done_crit", "complete"} => st = "closing")

\* C11 witness: done() has just returned true, after on_close, with both
\* buffers empty and a producer about to append.
C11_Witness ==
  /\ wpc = "complete"
  /\ st = "closing"
  /\ buf = <<>>
  /\ \E p \in Producers : pc[p] = "crit"

\* C12: try_push never waits.  It appends and reports accepted = true when
\* the buffer is empty or shorter than capacity; when the buffer is full it
\* reports accepted = false and leaves the buffer, the waiting producers
\* and the pending notifications as they were, and the adapter's state is
\* not touched either way.
C12_StepTryPush ==
  \A p \in Producers :
    /\ (pc[p] = "crit" /\ op[p] = "try_push" /\ pc'[p] # "crit") =>
         /\ pc'[p] = "ret"
         /\ added'[p] <=> (buf = <<>> \/ Len(buf) < capacity)
         /\ added'[p] => Len(buf') = Len(buf) + 1 /\ Front(buf', Len(buf)) = buf
         /\ ~added'[p] =>
              /\ buf' = buf
              /\ \A q \in Producers \ {p} : pc'[q] = pc[q]
              /\ ev' = ev /\ owed' = owed
         /\ st' = st /\ outcome' = outcome
    /\ (pc[p] = "ret" /\ op[p] = "try_push" /\ ~added[p] /\ pc'[p] # "ret") =>
         /\ pc'[p] = "idle"
         /\ buf' = buf /\ ev' = ev /\ owed' = owed
         /\ st' = st /\ outcome' = outcome

C12_TryPushNeverWaits ==
  /\ [][C12_StepTryPush]_vars
  /\ [](\A p \in Producers : op[p] = "try_push" => ~InWait(p))

\* C12 witness: a try_push has been rejected on a full buffer while a push
\* of another producer waits.
C12_Witness ==
  \E p \in Producers :
    /\ pc[p] = "ret" /\ op[p] = "try_push" /\ ~added[p]
    /\ Len(buf) = capacity
    /\ \E q \in Producers \ {p} : pc[q] = "wait"

\* C13: both push variants report became_first_item = true if and only if
\* they appended and the buffer was empty just before their own append; for
\* a blocking push that is the append after any waiting.  A rejected
\* try_push reports false.
C13_StepBecameFirst ==
  \A p \in Producers :
    (pc[p] = "crit" /\ pc'[p] = "ret") =>
      /\ first'[p] <=> (added'[p] /\ buf = <<>>)
      /\ op[p] = "push" => added'[p]

C13_BecameFirstIffEmptyBefore == [][C13_StepBecameFirst]_vars

\* C13 witness: a pull has emptied the full buffer, waking a waiting
\* producer, and a blocking push has appended into the emptied buffer and
\* reports true.
C13_Witness ==
  \E p \in Producers :
    /\ pc[p] = "ret" /\ op[p] = "push"
    /\ first[p] /\ Len(buf) = 1
    /\ \E q \in Producers \ {p} : pc[q] = "woken"

\* C14: a pull(n), n > 0, takes exactly the first min(n, len(buf)) items
\* out of the shared buffer and appends exactly those, in order, to the
\* staging buffer: never more than n, never more than there were; the
\* other items stay in their order; and the pull does not wait: the one
\* step under the lock ends it.
C14_StepPull ==
  (wpc = "pull_crit" /\ wpc' # "pull_crit") =>
    LET m == IF wn < Len(buf) THEN wn ELSE Len(buf) IN
      /\ wn > 0
      /\ Len(buf') = Len(buf) - m
      /\ \A i \in 1 .. Len(buf') : buf'[i] = buf[m + i]
      /\ Len(staging') = Len(staging) + m
      /\ \A i \in 1 .. Len(staging) : staging'[i] = staging[i]
      /\ \A i \in 1 .. m : staging'[Len(staging) + i] = buf[i]
      /\ wpc' = "emit"
      /\ mtx' = NoOwner

C15_StepWithinDemand ==
  Len(buf') < Len(buf) =>
    Len(buf) - Len(buf') <= demand - Len(staging)

C15_NeverPullsBeyondDemand ==
  /\ [][C15_StepWithinDemand]_vars
  /\ [](Len(staging) <= demand)
  /\ [](wpc \in {"pull_lock", "pull_crit"} => demand > Len(staging))

\* C15 witness: an on_event runs with no demand outstanding and an item in
\* the shared buffer; it has skipped pull.
C15_Witness ==
  /\ wpc = "emit" /\ hook = "pull"
  /\ demand = 0
  /\ buf # <<>>
  /\ staging = <<>>

\* C16: a buffer constructed with capacity 0 is never usable: no state has
\* a queue of capacity 0 that has accepted an item.
C16_ZeroCapacityUnusable == capacity = 0 => Len(buf) <= capacity

\* C17: terminal states are absorbing: once the adapter has completed or
\* aborted, its state and what the observers were told stay as they are, the
\* worker runs no pull, no item leaves the shared buffer and none is
\* emitted, whatever the producers push and notify afterwards.
C17_StepAbsorbing ==
  st \in {"completed", "aborted"} =>
    /\ st' = st
    /\ outcome' = outcome
    /\ wpc' = "idle"
    /\ Len(buf') >= Len(buf)
    /\ Front(buf', Len(buf)) = buf
    /\ staging' = staging
    /\ Len(pending') >= Len(pending)

C17_TerminalAbsorbing ==
  /\ [][C17_StepAbsorbing]_vars
  /\ [](st \in {"completed", "aborted"} => wpc = "idle" /\ staging = <<>>)

\* C17 witness: the adapter has completed, a producer has pushed and
\* notified afterwards, the worker has handled the signal, and the item is
\* still in the shared buffer although demand is outstanding.
C17_Witness ==
  /\ st = "completed"
  /\ buf # <<>>
  /\ demand > 0
  /\ ~ev /\ owed = 0
  /\ \A p \in Producers : pc[p] = "idle"

\* C18: wake-all with re-check.  A pull that removes an item wakes every
\* producer waiting in push; a pull that finds the buffer empty changes
\* nothing and wakes none.  A producer that woke up, notified or
\* spuriously, can only go on by taking the lock and re-testing the buffer:
\* it appends if there is a free slot and otherwise waits again with the
\* buffer unchanged.  Every append, by push or try_push, uses up a free
\* slot, so of k woken producers at most as many append as slots were
\* freed, in whatever order the lock is taken.
C18_StepWakeAllRecheck ==
  /\ Len(buf') < Len(buf) =>
       \A p \in Producers : pc[p] = "wait" => pc'[p] = "woken"
  /\ (wpc = "pull_crit" /\ wpc' # "pull_crit" /\ buf = <<>>) =>
       buf' = buf /\ staging' = staging /\ pc' = pc
  /\ \A p \in Producers :
       /\ (pc[p] \in {"woken", "spurious"} /\ pc'[p] # pc[p]) =>
            pc'[p] = "crit" /\ mtx = NoOwner /\ mtx' = p /\ buf' = buf
       /\ (pc[p] = "crit" /\ op[p] = "push" /\ pc'[p] # "crit") =>
            IF Len(buf) < capacity
              THEN pc'[p] = "ret" /\ Len(buf') = Len(buf) + 1
              ELSE pc'[p] = "wait" /\ buf' = buf
  /\ Len(buf') > Len(buf) =>
       Len(buf) < capacity /\ Len(buf') = Len(buf) + 1

C18_WakeAllWithRecheck == [][C18_StepWakeAllRecheck]_vars

\* C18 witness: a producer was waiting in push when on_close ran; the pull
\* of on_close has freed a slot and woken it, another producer's push has
\* taken the slot, and the first one has re-tested the full buffer and
\* waits again.
C18_Witness ==
  \E p, q \in Producers :
    /\ p # q
    /\ wpc = "emit" /\ hook = "close" /\ staging # <<>>
    /\ q \in caught /\ pc[q] = "wait"
    /\ pc[p] = "ret" /\ op[p] = "push" /\ added[p]
    /\ Len(buf) = capacity

\* C19: the worker never blocks on the shared buffer.  A thread is inside
\* a buffer operation exactly while it holds the lock, so at most one is; a
\* producer waiting for capacity does not hold it; buf changes only in a
\* step of the thread that holds the lock, and that step gives the lock
\* up; the worker is never in a wait on the condition; and whenever the
\* worker wants the lock and a producer holds it, that producer can take
\* its step.
C19_StepUnderLock ==
  /\ Len(buf') > Len(buf) => mtx \in Producers /\ pc[mtx] = "crit"
  /\ Len(buf') < Len(buf) => mtx = WorkerThread
  /\ buf' # buf => mtx' = NoOwner
  /\ (mtx # NoOwner /\ mtx' # mtx) => mtx' = NoOwner

C19_HolderCanStep ==
  (wpc \in {"pull_lock", "done_lock"} /\ mtx # NoOwner) =>
    /\ mtx \in Producers
    /\ ENABLED (queue_try_push(mtx) \/ queue_push(mtx))

C19_WorkerNeverBlocks ==
  /\ [][C19_StepUnderLock]_vars
  /\ [](\A p \in Producers : (mtx = p) <=> (pc[p] = "crit"))
  /\ []((mtx = WorkerThread) <=> (wpc \in {"pull_crit", "done_crit"}))
  /\ [](\A p \in Producers : InWait(p) => mtx # p)
  /\ [](wpc \in {"idle", "pull_lock", "pull_crit", "emit", "done_lock",
                 "done_crit", "complete"})
  /\ []C19_HolderCanStep

\* C19 witness: the worker wants the lock for a pull while one producer
\* holds it and another one waits for capacity.
C19_Witness ==
  /\ wpc = "pull_lock"
  /\ \E p, q \in Producers : mtx = p /\ pc[p] = "crit" /\ pc[q] = "wait"

\* C20: the handle calls notify_event() only after the queue operation
\* has returned and released the lock: the step that notifies is a step of
\* a producer whose operation returned do_notify = true and that does not
\* hold the lock, and it is another step than the append, which sends
\* nothing.  A pull or another append can come in between, so an on_event
\* can find the buffer empty; the pull it runs then leaves the shared
\* buffer and the staging buffer as they are, and with nothing staged the
\* hook emits nothing and leaves the demand as it is.
C20_StepNotifyAfterUnlock ==
  /\ owed' < owed =>
       /\ \E p \in Producers :
            /\ pc[p] = "ret" /\ first[p] /\ mtx # p
            /\ pc'[p] = "idle"
       /\ ev'
       /\ buf' = buf
  /\ (~ev /\ ev') => owed' < owed
  /\ buf' # buf => ev' = ev /\ owed' >= owed
  /\ (ev /\ ~ev') =>
       buf' = buf /\ staging' = staging /\ demand' = demand
  /\ (wpc = "pull_crit" /\ wpc' # "pull_crit" /\ buf = <<>>) =>
       buf' = buf /\ staging' = staging /\ demand' = demand
  /\ (wpc = "emit" /\ wpc' # "emit" /\ staging = <<>>) =>
       buf' = buf /\ staging' = staging /\ demand' = demand

C20_NotifyAfterUnlock == [][C20_StepNotifyAfterUnlock]_vars

\* C20 witness: an on_event runs with no demand outstanding and nothing
\* left anywhere: the item whose append it was sent for had been pulled and
\* emitted by an on_request before the signal was handled.
C20_Witness ==
  /\ wpc = "emit" /\ hook = "pull"
  /\ demand = 0
  /\ buf = <<>>
  /\ pending = <<>>
  /\ st = "active"

====
